---- MODULE Spec2Model ----
(***************************************************************************)
(* A model of the localization pipeline of Agentless/agentless/fl/FL.py:   *)
(* the files stage and the irrelevant-folders stage of LLMFL, the symbol   *)
(* and line stages with their context-length loop and sample merging, and  *)
(* the partitioned localization of KernelLLMFL.                            *)
(*                                                                         *)
(* Python strings are modelled as sequences of one-character strings, so   *)
(* that strip, split, startswith and endswith are computed and not         *)
(* assumed.  The oracle (model.codegen) and the token counter              *)
(* (num_tokens_from_messages) are the environment: their results are       *)
(* chosen nondeterministically from bounded sets.                          *)
(***************************************************************************)
EXTENDS Integers, Sequences, FiniteSets, TLC

VARIABLES
    structure,       \* self.structure: the index, a sequence of [type, name] entries
    op,              \* the method that ran last ("none" after construction)
    top_n,           \* argument top_n of the last call
    mock,            \* argument mock of the last call
    raw_output,      \* traj["response"] of the last single-sample oracle call
    said,            \* the lines the oracle wrote into that response, and how it wrapped them
    outcome,         \* "none" | "returned" | "raised" | "running"
    error,           \* the exception raised, "" when none: see Exceptions
    oracle_calls,    \* number of model.codegen calls started by the last call
    oracle_raised,   \* where model.codegen raised last: "" (nowhere) | "stage" |
                     \* "partition" | "rerank"
    found_files,     \* first element of the returned tuple of the files stages
    filtered_files,  \* "filtered_files" of localize_irrelevant
    file_names,      \* argument file_names of a symbol or line stage
    tok,             \* the token counter: tokens of the message built from k chunks
    coarse_in,       \* coarse_locs (its keys, in dict order) as passed by the caller
    coarse_locs,     \* the caller's coarse_locs dict (its keys) after the call
    contents,        \* the chunks of the message finally built
    prompt_tokens,   \* tokens of the message handed to the oracle or put in the mock traj
    num_samples,     \* argument num_samples of a line stage
    raw_trajs,       \* what model.codegen returned
    locs,            \* first element of the returned tuple of a symbol or line stage
    traj,            \* the trajectory returned (merged usage and responses)
    kernel_subdirs,  \* KernelLLMFL.kernel_subdirs
    kpc,             \* position inside localize_by_subdirs: "idle" | "loop" |
                     \* "partition_call" | "rerank_call" | "done" | "aborted"
    kidx,            \* index of the partition being processed
    outstanding,     \* oracle calls started and not yet returned
    failed_subdirs,  \* partitions whose files stage raised (caught at the boundary)
    subdir_hits,     \* per partition, the files its files stage returned
    all_results,     \* all_results of localize_by_subdirs: <<file, subdir>> pairs
    all_trajs,       \* all_trajs of localize_by_subdirs
    rerank_input,    \* file_results as passed to _rerank_files
    rerank_calls,    \* number of model.codegen calls started by _rerank_files
    final_files,     \* what _rerank_files (so localize_by_subdirs) returns
    CLANG_AVAILABLE, \* module flag of get_all_structure: the clang bindings import
    directory_path,  \* argument directory_path of the indexer
    target_subdirs,  \* argument target_subdirs (<<>> for None)
    tree,            \* what os.walk(directory_path) yields: [root, files], top-down
    ipc,             \* position of the indexer: "idle" | "walking" | "done" |
                     \* "constructed" | "partitioned"
    walk_pos,        \* the directory of the walk the loop is at
    file_pos,        \* the file of that directory the inner loop is at (0: none yet)
    index_structure, \* the nested dict being built: nodes [path, value] in insertion order
    extraction       \* per recognized source file, how its extraction went

vars == <<structure, op, top_n, mock, raw_output, said, outcome, error, oracle_calls,
          oracle_raised,
          found_files, filtered_files, file_names, tok, coarse_in, coarse_locs,
          contents, prompt_tokens, num_samples, raw_trajs, locs, traj,
          kernel_subdirs, kpc, kidx, outstanding, failed_subdirs, subdir_hits,
          all_results, all_trajs, rerank_input, rerank_calls, final_files,
          CLANG_AVAILABLE, directory_path, target_subdirs, tree, ipc, walk_pos,
          file_pos, index_structure, extraction>>

filesVars == <<said, found_files, filtered_files>>
stageVars == <<file_names, tok, coarse_in, coarse_locs, contents, prompt_tokens,
               num_samples, raw_trajs, locs, traj>>
kernelVars == <<kernel_subdirs, kpc, kidx, outstanding, failed_subdirs, subdir_hits,
                all_results, all_trajs, rerank_input, rerank_calls, final_files>>
indexerVars == <<CLANG_AVAILABLE, directory_path, target_subdirs, tree, ipc, walk_pos,
                 file_pos, index_structure, extraction>>

-----------------------------------------------------------------------------
(* Bounds of the model. *)

\* Longest list of lines an oracle response to a files stage is built from.
MaxLines == 2

\* Largest top_n a caller passes.
MaxTopN == 2

-----------------------------------------------------------------------------
(* Python string operations, on sequences of characters. *)

NL == "\n"

IsSpace(c) == c \in {" ", NL, "\t"}

RECURSIVE lstrip(_)
lstrip(s) == IF s # <<>> /\ IsSpace(Head(s)) THEN lstrip(Tail(s)) ELSE s

RECURSIVE rstrip(_)
rstrip(s) ==
    IF s # <<>> /\ IsSpace(s[Len(s)]) THEN rstrip(SubSeq(s, 1, Len(s) - 1)) ELSE s

\* str.strip()
strip(s) == rstrip(lstrip(s))

\* str.split(sep) for a one-character separator: "" splits into [""].
RECURSIVE split(_, _)
split(s, sep) ==
    IF \E i \in 1..Len(s) : s[i] = sep
    THEN LET i == CHOOSE k \in 1..Len(s) :
                      s[k] = sep /\ \A j \in 1..(k - 1) : s[j] # sep
         IN  <<SubSeq(s, 1, i - 1)>> \o split(SubSeq(s, i + 1, Len(s)), sep)
    ELSE <<s>>

\* str.startswith(p)
startswith(s, p) == Len(p) <= Len(s) /\ SubSeq(s, 1, Len(p)) = p

\* str.endswith(p)
endswith(s, p) == Len(p) <= Len(s) /\ SubSeq(s, Len(s) - Len(p) + 1, Len(s)) = p

\* "\n".join(lines)
RECURSIVE join(_)
join(lines) ==
    IF lines = <<>> THEN <<>>
    ELSE IF Len(lines) = 1 THEN lines[1]
    ELSE lines[1] \o <<NL>> \o join(Tail(lines))

-----------------------------------------------------------------------------
(* The paths and response lines the model draws its inputs from. *)

P_a_c == <<"a", ".", "c">>
P_sub_b_c == <<"s", "u", "b", "/", "b", ".", "c">>
P_sub_c_h == <<"s", "u", "b", "/", "c", ".", "h">>
P_sub_d_e_c == <<"s", "u", "b", "/", "d", "/", "e", ".", "c">>
P_subs_f_c == <<"s", "u", "b", "s", "/", "f", ".", "c">>
P_t_py == <<"t", ".", "p", "y">>
D_sub == <<"s", "u", "b">>
D_sub_d == <<"s", "u", "b", "/", "d">>
D_subs == <<"s", "u", "b", "s">>
L_b_c == <<"b", ".", "c">>
L_sub_slash == <<"s", "u", "b", "/">>
L_sub_d_slash == <<"s", "u", "b", "/", "d", "/">>
L_zz == <<"z", "z">>
\* The backquote character (the lexer of TLA+ does not take it inside a string).
Backquote == "BQ"

Fence == <<Backquote, Backquote, Backquote>>
Slash == <<"/">>
DotPy == <<".", "p", "y">>

File(p) == [type |-> "file", name |-> p]
Dir(p) == [type |-> "directory", name |-> p]

\* The index of the spec's files-stage scenario: a.c, sub/b.c, sub/c.h.
ScenarioStructure == <<File(P_a_c), Dir(D_sub), File(P_sub_b_c), File(P_sub_c_h)>>

\* An index with a nested folder, a sibling folder sharing a name prefix and a .py file.
NestedStructure ==
    <<File(P_a_c), Dir(D_sub), File(P_sub_b_c), Dir(D_sub_d), File(P_sub_d_e_c),
      Dir(D_subs), File(P_subs_f_c), File(P_t_py)>>

Structures == {<<>>, ScenarioStructure, NestedStructure}

\* The lines an oracle response is made of.
ResponseLines ==
    {P_a_c, P_sub_b_c, L_b_c, L_sub_slash, D_sub, L_sub_d_slash, P_t_py, L_zz}

LineLists == UNION {[1..n -> ResponseLines] : n \in 0..MaxLines}

Wraps == {"plain", "fenced", "padded"}

\* The raw text of a response: the lines joined by newlines, as they are, inside a
\* fenced block, or with white space around them.
Render(lines, wrap) ==
    CASE wrap = "plain" -> join(lines)
      [] wrap = "fenced" -> join(<<Fence>> \o lines \o <<Fence>>)
      [] wrap = "padded" -> <<" ", NL>> \o join(lines) \o <<NL>>

\* The spec's scenario response: a fenced block with sub/b.c then a.c.
ScenarioResponse == Render(<<P_sub_b_c, P_a_c>>, "fenced")

-----------------------------------------------------------------------------
(* LLMFL: the files stage and the irrelevant-folders stage. *)

\* Python's None, as returned by _parse_model_return_lines for an empty string.
NoneValue == [isNone |-> TRUE, lines |-> <<>>]

_parse_model_return_lines(content) ==
    IF content # <<>>
    THEN [isNone |-> FALSE, lines |-> split(strip(content), NL)]
    ELSE NoneValue

\* get_full_file_paths_and_classes_and_functions: the paths of the indexed files.
RECURSIVE get_full_file_paths(_)
get_full_file_paths(s) ==
    IF s = <<>> THEN <<>>
    ELSE (IF Head(s).type = "file" THEN <<Head(s).name>> ELSE <<>>)
         \o get_full_file_paths(Tail(s))

InSeq(x, s) == \E i \in 1..Len(s) : s[i] = x

\* Path correction: an exact match, else the first indexed path the mention is a
\* suffix of at a folder boundary, else nothing.
ResolvePath(mention, files) ==
    IF InSeq(mention, files) THEN <<mention>>
    ELSE IF mention # <<>> /\ \E i \in 1..Len(files) : endswith(files[i], Slash \o mention)
    THEN LET i == CHOOSE k \in 1..Len(files) :
                      /\ endswith(files[k], Slash \o mention)
                      /\ \A j \in 1..(k - 1) : ~endswith(files[j], Slash \o mention)
         IN  <<files[i]>>
    ELSE <<>>

RECURSIVE ResolveAll(_, _, _)
ResolveAll(mentions, files, acc) ==
    IF mentions = <<>> THEN acc
    ELSE LET r == ResolvePath(Head(mentions), files)
         IN  ResolveAll(Tail(mentions), files,
                        IF r = <<>> \/ InSeq(r[1], acc) THEN acc ELSE acc \o r)

\* correct_file_paths(model_found_files, files); None or no lines gives [].
correct_file_paths(parsed, files) ==
    IF parsed.isNone THEN <<>> ELSE ResolveAll(parsed.lines, files, <<>>)

\* Mutant: only folders are kept.
is_folder_only(x) == endswith(x, Slash)

\* The comprehension of localize_irrelevant that keeps folders and .py files.
is_folder_or_file(x) == endswith(x, Slash) \/ endswith(x, DotPy)

identified_files_folder(lines) == SelectSeq(lines, is_folder_or_file)

\* Mutant: the prefix test the wrong way round.
is_filtered_reversed(file_name, folders) ==
    \E i \in 1..Len(folders) : startswith(folders[i], file_name)

\* any([file_name.startswith(x) for x in model_identified_files_folder])
is_filtered(file_name, folders) ==
    \E i \in 1..Len(folders) : startswith(file_name, folders[i])

\* Mutant: the resolved files in the order of the index.
localize_found_files_index_order(raw, files) ==
    LET found == correct_file_paths(_parse_model_return_lines(raw), files)
        is_found(f) == InSeq(f, found)
    IN  SelectSeq(files, is_found)

\* found_files of LLMFL.localize, from the oracle's raw response.
localize_found_files(raw, files) ==
    correct_file_paths(_parse_model_return_lines(raw), files)

\* What model.codegen can do: return a response, or raise.
Silence == [lines |-> <<>>, wrap |-> "plain"]

OracleResults ==
    {[raises |-> FALSE, lines |-> l, wrap |-> w] : l \in LineLists, w \in Wraps}
    \cup {[raises |-> TRUE, lines |-> <<>>, wrap |-> "plain"]}

TopNs == 1..MaxTopN

FilesFrame == UNCHANGED <<structure, stageVars, kernelVars, indexerVars>>

\* LLMFL.localize(top_n, mock)
Localize ==
    /\ op = "none"
    /\ \E n \in TopNs, m \in BOOLEAN, o \in OracleResults :
           /\ op' = "localize"
           /\ top_n' = n
           /\ mock' = m
           /\ said' = (IF m \/ o.raises THEN Silence
                        ELSE [lines |-> o.lines, wrap |-> o.wrap])
           /\ oracle_raised' = (IF ~m /\ o.raises THEN "stage" ELSE "")
           /\ filtered_files' = <<>>
           /\ IF m
              THEN /\ outcome' = "returned"
                   /\ error' = ""
                   /\ oracle_calls' = 0
                   /\ raw_output' = <<>>
                   /\ found_files' = <<>>
              ELSE IF o.raises
              THEN /\ outcome' = "raised"
                   /\ error' = "OracleError"
                   /\ oracle_calls' = 1
                   /\ raw_output' = <<>>
                   /\ found_files' = <<>>
              ELSE /\ outcome' = "returned"
                   /\ error' = ""
                   /\ oracle_calls' = 1
                   /\ raw_output' = Render(o.lines, o.wrap)
                   /\ found_files' =
                          localize_found_files(Render(o.lines, o.wrap),
                                               get_full_file_paths(structure))
           /\ FilesFrame

\* LLMFL.localize_irrelevant(top_n, mock)
LocalizeIrrelevant ==
    /\ op = "none"
    /\ \E n \in TopNs, m \in BOOLEAN, o \in OracleResults :
           /\ op' = "localize_irrelevant"
           /\ top_n' = n
           /\ mock' = m
           /\ said' = (IF m \/ o.raises THEN Silence
                        ELSE [lines |-> o.lines, wrap |-> o.wrap])
           /\ oracle_raised' = (IF ~m /\ o.raises THEN "stage" ELSE "")
           /\ IF m
              THEN \* the mock branch reads self.model, which no constructor sets
                   /\ outcome' = "raised"
                   /\ error' = "AttributeError"
                   /\ oracle_calls' = 0
                   /\ raw_output' = <<>>
                   /\ found_files' = <<>>
                   /\ filtered_files' = <<>>
              ELSE IF o.raises
              THEN /\ outcome' = "raised"
                   /\ error' = "OracleError"
                   /\ oracle_calls' = 1
                   /\ raw_output' = <<>>
                   /\ found_files' = <<>>
                   /\ filtered_files' = <<>>
              ELSE LET parsed == _parse_model_return_lines(Render(o.lines, o.wrap))
                       files == get_full_file_paths(structure)
                       folders == identified_files_folder(parsed.lines)
                       hit(f) == is_filtered(f, folders)
                       kept(f) == ~is_filtered(f, folders)
                   IN  /\ oracle_calls' = 1
                       /\ raw_output' = Render(o.lines, o.wrap)
                       /\ IF parsed.isNone
                          THEN \* iterating None raises TypeError
                               /\ outcome' = "raised"
                               /\ error' = "TypeError"
                               /\ found_files' = <<>>
                               /\ filtered_files' = <<>>
                          ELSE /\ outcome' = "returned"
                               /\ error' = ""
                               /\ found_files' = SelectSeq(files, kept)
                               /\ filtered_files' = SelectSeq(files, hit)
           /\ FilesFrame

StageDefaults ==
    /\ file_names = <<>>
    /\ tok = <<>>
    /\ coarse_in = <<>>
    /\ coarse_locs = <<>>
    /\ contents = <<>>
    /\ prompt_tokens = 0
    /\ num_samples = 1
    /\ raw_trajs = <<>>
    /\ locs = <<>>
    /\ traj = [response |-> <<>>, usage |-> [prompt_tokens |-> 0]]

KernelDefaults ==
    /\ kernel_subdirs = <<>>
    /\ kpc = "idle"
    /\ kidx = 0
    /\ outstanding = 0
    /\ failed_subdirs = {}
    /\ subdir_hits = <<>>
    /\ all_results = <<>>
    /\ all_trajs = <<>>
    /\ rerank_input = <<>>
    /\ rerank_calls = 0
    /\ final_files = <<>>

\* No indexer is running: the index is handed to the constructor ready-made.
IndexerDefaults ==
    /\ CLANG_AVAILABLE = TRUE
    /\ directory_path = <<>>
    /\ target_subdirs = <<>>
    /\ tree = <<>>
    /\ ipc = "idle"
    /\ walk_pos = 0
    /\ file_pos = 0
    /\ index_structure = <<>>
    /\ extraction = <<>>

CallDefaults ==
    /\ op = "none"
    /\ top_n = 1
    /\ mock = FALSE
    /\ raw_output = <<>>
    /\ said = Silence
    /\ outcome = "none"
    /\ error = ""
    /\ oracle_calls = 0
    /\ oracle_raised = ""
    /\ found_files = <<>>
    /\ filtered_files = <<>>

\* An LLMFL object constructed over one of the indexes.  The stage methods keep no
\* state between calls (they read self.structure and write nothing), so a behaviour
\* is one call on a fresh object.
InitFiles ==
    /\ structure \in Structures
    /\ CallDefaults
    /\ StageDefaults
    /\ KernelDefaults
    /\ IndexerDefaults

NextFiles == Localize \/ LocalizeIrrelevant

SpecFiles == InitFiles /\ [][NextFiles]_vars

-----------------------------------------------------------------------------
(* LLMFL: the symbol stages and the line stages. *)

MAX_CONTEXT_LENGTH == 128000

\* Most candidate files of one call.
MaxFiles == 3

\* Most samples a line stage asks for.
MaxSamples == 3

\* Token counts the counter can report.  115200 and 166400 are the 90 and 130 of
\* the spec's scenario (fixed text 10, chunks 40/40/40, budget 100) at the scale
\* where the budget of 100 is MAX_CONTEXT_LENGTH.
TokenValues == {115200, MAX_CONTEXT_LENGTH - 1, MAX_CONTEXT_LENGTH, 166400}

\* A token counter for messages of up to n chunks.  The loop never builds a message
\* with no chunk unless there is no candidate at all.
TokenCounters(n) == IF n = 0 THEN [{0} -> TokenValues] ELSE [1..n -> TokenValues]

\* The orders the keys of a dict over n files can have.
KeyOrders(n) == {p \in [1..n -> 1..n] : \A i, j \in 1..n : p[i] = p[j] => i = j}

\* Mutant: a message of exactly the limit is not too long.
message_longer_than_limit(tokens) == tokens > MAX_CONTEXT_LENGTH

\* message_too_long(message), on the token count of the message
message_too_long(tokens) == tokens >= MAX_CONTEXT_LENGTH

\* Mutant: the first chunk is dropped (contents[1:]).
drop_first(chunks) == Tail(chunks)

\* contents[:-1], and coarse_locs.popitem(), which removes the last key
drop_last(chunks) == SubSeq(chunks, 1, Len(chunks) - 1)

\* Mutant: the loop drops a chunk before it measures the message.
shrink_before_measuring(chunks, counter) ==
    IF Len(chunks) > 1 THEN drop_last(chunks) ELSE chunks

\* The while loop: drop the last chunk and rebuild the message while it is too long
\* and more than one chunk is left.
RECURSIVE shrink(_, _)
shrink(chunks, counter) ==
    IF message_too_long(counter[Len(chunks)]) /\ Len(chunks) > 1
    THEN shrink(drop_last(chunks), counter)
    ELSE chunks

\* Mutant: the check after the loop is missing.
never_raises(chunks, counter) == FALSE

\* if message_too_long(message): raise ValueError(...)
context_too_large(chunks, counter) == message_too_long(counter[Len(chunks)])

\* The lines of a response to a symbol or line stage: a path line naming a
\* candidate, a location line, or anything else.
PathLine(f) == [kind |-> "path", file |-> f, text |-> ""]
LocLine(t) == [kind |-> "loc", file |-> 0, text |-> t]
OtherLine == [kind |-> "other", file |-> 0, text |-> ""]

ResponseA == <<PathLine(1), LocLine("function: f"), LocLine("line: 10")>>
ResponseB == <<LocLine("line: 3"), OtherLine, PathLine(2), LocLine("class: C"),
               PathLine(1), LocLine("line: 7")>>

\* What one oracle sample is: its raw response and its token usage.
Trajs ==
    {[response |-> ResponseA, usage |-> [prompt_tokens |-> 7, completion_tokens |-> 2]],
     [response |-> ResponseB, usage |-> [prompt_tokens |-> 11, completion_tokens |-> 3]]}

\* What model.codegen(message, num_samples=n) can do: return n samples, or raise.
StageOracleResults(n) ==
    {[raises |-> FALSE, trajs |-> t] : t \in [1..n -> Trajs]}
    \cup {[raises |-> TRUE, trajs |-> <<>>]}

\* The location lines of a response attached to the path line above them.
RECURSIVE AttachLocs(_, _, _)
AttachLocs(lines, current, acc) ==
    IF lines = <<>> THEN acc
    ELSE LET l == Head(lines)
         IN  IF l.kind = "path"
             THEN AttachLocs(Tail(lines), l.file, acc)
             ELSE IF l.kind = "loc" /\ current \in DOMAIN acc
             THEN AttachLocs(Tail(lines), current,
                             [acc EXCEPT ![current] = Append(@, l.text)])
             ELSE AttachLocs(Tail(lines), current, acc)

\* extract_locs_for_files(extract_code_blocks(raw_output), file_names, ...)
extract_locs_for_files(response, names) ==
    AttachLocs(response, 0, [f \in {names[i] : i \in 1..Len(names)} |-> <<>>])

\* Mutant: the single sample is not unwrapped.
always_list(samples) == [isList |-> TRUE, items |-> samples]

\* if len(model_found_locs_separated_in_samples) == 1: take its only element
unwrap_single(samples) == [isList |-> Len(samples) # 1, items |-> samples]

RECURSIVE sum_prompt_tokens(_)
sum_prompt_tokens(trajs) ==
    IF trajs = <<>> THEN 0
    ELSE Head(trajs).usage.prompt_tokens + sum_prompt_tokens(Tail(trajs))

RECURSIVE sum_completion_tokens(_)
sum_completion_tokens(trajs) ==
    IF trajs = <<>> THEN 0
    ELSE Head(trajs).usage.completion_tokens + sum_completion_tokens(Tail(trajs))

\* Mutant: the usage of the first sample stands for all of them.
usage_of_first(trajs) == trajs[1].usage

\* The merged token usage of a line stage.
merge_usage(trajs) ==
    [completion_tokens |-> sum_completion_tokens(trajs),
     prompt_tokens |-> sum_prompt_tokens(trajs)]

\* raw_outputs = [raw_traj["response"] for raw_traj in raw_trajs]
raw_outputs(trajs) == [i \in 1..Len(trajs) |-> trajs[i].response]

\* The trajectory a mock call returns: the prompt's token count only.
MockTraj(tokens) == [response |-> <<>>, usage |-> [prompt_tokens |-> tokens]]

NoTraj == [response |-> <<>>, usage |-> [prompt_tokens |-> 0]]

StageFrame ==
    UNCHANGED <<structure, top_n, raw_output, filesVars, kernelVars, indexerVars>>

\* One call of a symbol or line stage.  line_stage: the stage takes num_samples and
\* merges the samples; coarse: its chunks are the entries of the caller's
\* coarse_locs, popped in place.
StageCall(name, line_stage, coarse) ==
    /\ op = "none"
    /\ \E n \in 0..MaxFiles, m \in BOOLEAN,
          samples \in (IF line_stage THEN 1..MaxSamples ELSE {1}) :
         \E counter \in TokenCounters(n),
            keys \in (IF coarse THEN KeyOrders(n) ELSE {[i \in 1..n |-> i]}),
            o \in StageOracleResults(samples) :
           LET names == [i \in 1..n |-> i]
               final == shrink(keys, counter)
               tokens == counter[Len(final)]
           IN  /\ op' = name
               /\ mock' = m
               /\ file_names' = names
               /\ tok' = counter
               /\ num_samples' = samples
               /\ coarse_in' = (IF coarse THEN keys ELSE <<>>)
               /\ coarse_locs' = (IF coarse THEN final ELSE <<>>)
               /\ contents' = final
               /\ oracle_raised' =
                      (IF ~context_too_large(final, counter) /\ ~m /\ o.raises
                       THEN "stage" ELSE "")
               /\ IF context_too_large(final, counter)
                  THEN /\ outcome' = "raised"
                       /\ error' = "ValueError"
                       /\ oracle_calls' = 0
                       /\ prompt_tokens' = 0
                       /\ raw_trajs' = <<>>
                       /\ locs' = <<>>
                       /\ traj' = NoTraj
                  ELSE IF m
                  THEN /\ outcome' = "returned"
                       /\ error' = ""
                       /\ oracle_calls' = 0
                       /\ prompt_tokens' = 0
                       /\ raw_trajs' = <<>>
                       \* [] from the coarse stage, {} from the others
                       /\ locs' = [isList |-> coarse, items |-> <<>>]
                       /\ traj' = MockTraj(tokens)
                  ELSE IF o.raises
                  THEN /\ outcome' = "raised"
                       /\ error' = "OracleError"
                       /\ oracle_calls' = 1
                       /\ prompt_tokens' = tokens
                       /\ raw_trajs' = <<>>
                       /\ locs' = <<>>
                       /\ traj' = NoTraj
                  ELSE /\ outcome' = "returned"
                       /\ error' = ""
                       /\ oracle_calls' = 1
                       /\ prompt_tokens' = tokens
                       /\ raw_trajs' = o.trajs
                       /\ IF line_stage
                          THEN /\ locs' = unwrap_single(
                                      [i \in 1..Len(o.trajs) |->
                                          extract_locs_for_files(o.trajs[i].response, names)])
                               /\ traj' = [response |-> raw_outputs(o.trajs),
                                           usage |-> merge_usage(o.trajs)]
                          ELSE /\ locs' = [isList |-> FALSE,
                                           items |-> <<extract_locs_for_files(
                                                         o.trajs[1].response, names)>>]
                               /\ traj' = o.trajs[1]
               /\ StageFrame

LocalizeFunctionFromCompressedFiles ==
    StageCall("localize_function_from_compressed_files", FALSE, FALSE)

LocalizeFunctionFromRawText ==
    StageCall("localize_function_from_raw_text", FALSE, FALSE)

LocalizeLineFromCoarseFunctionLocs ==
    StageCall("localize_line_from_coarse_function_locs", TRUE, TRUE)

LocalizeLineFromRawText ==
    StageCall("localize_line_from_raw_text", TRUE, FALSE)

InitStages ==
    /\ structure = ScenarioStructure
    /\ CallDefaults
    /\ StageDefaults
    /\ KernelDefaults
    /\ IndexerDefaults

NextStages ==
    \/ LocalizeFunctionFromCompressedFiles
    \/ LocalizeFunctionFromRawText
    \/ LocalizeLineFromCoarseFunctionLocs
    \/ LocalizeLineFromRawText

SpecStages == InitStages /\ [][NextStages]_vars

-----------------------------------------------------------------------------
(* KernelLLMFL: the partitioned localization. *)

D_net == <<"n", "e", "t">>
D_mm == <<"m", "m">>
D_fs == <<"f", "s">>
D_fs_ext == <<"f", "s", "/", "e", "x", "t">>
D_drv == <<"d", "r", "v">>
P_net_x_c == <<"n", "e", "t", "/", "x", ".", "c">>
P_mm_y_c == <<"m", "m", "/", "y", ".", "c">>
P_fs_z_c == <<"f", "s", "/", "z", ".", "c">>
P_fs_w_h == <<"f", "s", "/", "w", ".", "h">>
P_fs_ext_v_c == <<"f", "s", "/", "e", "x", "t", "/", "v", ".", "c">>
P_README == <<"R", "E", "A", "D", "M", "E">>

\* An index with three top-level folders, a nested folder and a top-level file.
KernelStructure ==
    <<Dir(D_net), File(P_net_x_c), Dir(D_mm), File(P_mm_y_c), Dir(D_fs),
      File(P_fs_z_c), File(P_fs_w_h), Dir(D_fs_ext), File(P_fs_ext_v_c),
      File(P_README)>>

KernelStructures == {<<>>, KernelStructure}

\* The kernel_subdirs a caller passes: none (they are then read off the index), or
\* a list of its own, here with a folder the index does not have.
KernelSubdirArgs == {<<>>, <<D_fs, D_drv, D_net>>}

\* The responses the oracle gives in the partitioned localization: files of every
\* partition in a fenced block, one file, the empty string, and a list with a
\* repeated path and a line that is no path.
KernelResponses ==
    {Render(<<P_fs_w_h, P_net_x_c, P_mm_y_c, P_fs_z_c>>, "fenced"),
     Render(<<P_fs_z_c>>, "plain"),
     <<>>,
     Render(<<P_fs_z_c, L_zz, P_fs_z_c>>, "plain")}

KernelOracleResults ==
    {[raises |-> FALSE, response |-> r] : r \in KernelResponses}
    \cup {[raises |-> TRUE, response |-> <<>>]}

\* The exceptions of the model.
Exceptions == {"ValueError", "TypeError", "AttributeError", "OracleError"}

\* str.strip(c) for one character
RECURSIVE strip_char(_, _)
strip_char(s, c) ==
    IF s # <<>> /\ Head(s) = c THEN strip_char(Tail(s), c)
    ELSE IF s # <<>> /\ s[Len(s)] = c THEN strip_char(SubSeq(s, 1, Len(s) - 1), c)
    ELSE s

\* KernelLLMFL._get_kernel_subdirs(structure)
RECURSIVE _get_kernel_subdirs(_)
_get_kernel_subdirs(s) ==
    IF s = <<>> THEN <<>>
    ELSE (IF /\ Head(s).type = "directory"
             /\ ~InSeq("/", strip_char(Head(s).name, "/"))
          THEN <<Head(s).name>> ELSE <<>>)
         \o _get_kernel_subdirs(Tail(s))

\* KernelLLMFL._filter_structure_by_subdir(structure, subdir)
_filter_structure_by_subdir(s, subdir) ==
    LET in_subdir(item) == startswith(item.name, subdir \o Slash) \/ item.name = subdir
    IN  SelectSeq(s, in_subdir)

\* [(f, subdir) for f in found_files]
tagged(found, subdir) == [i \in 1..Len(found) |-> <<found[i], subdir>>]

\* Mutant: the handler catches the context-length error only.
except_value_error(e) == e = "ValueError"

\* except Exception as e: which exceptions the partition loop catches
except_exception(e) == e \in Exceptions

\* file_results[:top_n], reranked_files[:top_n]
first_n(s, n) == SubSeq(s, 1, IF Len(s) < n THEN Len(s) ELSE n)

KernelFrame == UNCHANGED <<structure, raw_output, filesVars, stageVars, indexerVars>>

\* The hit lists _rerank_files is called with directly.
HitLists ==
    {<<>>, <<<<P_net_x_c, D_net>>>>,
     <<<<P_net_x_c, D_net>>, <<P_fs_z_c, D_fs>>, <<P_mm_y_c, D_mm>>>>}

\* [f[0] for f in file_results]
paths_of(file_results) == [i \in 1..Len(file_results) |-> file_results[i][1]]

\* Mutant: only an empty hit list bypasses the oracle.
rerank_bypasses_if_empty(file_results, m) == file_results = <<>>

\* if not file_results or mock
rerank_bypasses(file_results, m) == file_results = <<>> \/ m

\* _rerank_files(file_results, top_n, mock) up to its oracle call
_rerank_files_begin(file_results, n, m) ==
    /\ rerank_input' = file_results
    /\ IF rerank_bypasses(file_results, m)
       THEN /\ final_files' = paths_of(first_n(file_results, n))
            /\ kpc' = "done"
            /\ outcome' = "returned"
            /\ UNCHANGED <<outstanding, oracle_calls, rerank_calls>>
       ELSE /\ kpc' = "rerank_call"
            /\ outcome' = "running"
            /\ outstanding' = outstanding + 1
            /\ oracle_calls' = oracle_calls + 1
            /\ rerank_calls' = rerank_calls + 1
            /\ UNCHANGED final_files

\* _rerank_files(file_results, top_n, mock) called on its own.
RerankFiles ==
    /\ op = "none"
    /\ \E hits \in HitLists, n \in TopNs, m \in BOOLEAN :
           /\ top_n' = n
           /\ mock' = m
           /\ _rerank_files_begin(hits, n, m)
    /\ op' = "_rerank_files"
    /\ UNCHANGED <<error, oracle_raised, kernel_subdirs, kidx, failed_subdirs,
                   subdir_hits, all_results, all_trajs>>
    /\ KernelFrame

CurrentSubdir == kernel_subdirs[kidx]

\* Mutant: the loop ends after its first round.
loop_over_after_first == kidx > 1

\* for subdir in self.kernel_subdirs: the loop has gone through the whole list
loop_over == kidx > Len(kernel_subdirs)

\* localize_by_subdirs(top_n, mock) is called: the loop over kernel_subdirs begins.
LocalizeBySubdirs ==
    /\ op = "none"
    /\ \E n \in TopNs, m \in BOOLEAN :
           /\ top_n' = n
           /\ mock' = m
    /\ op' = "localize_by_subdirs"
    /\ outcome' = "running"
    /\ kpc' = "loop"
    /\ kidx' = 1
    /\ all_results' = <<>>
    /\ all_trajs' = <<>>
    /\ UNCHANGED <<error, oracle_calls, oracle_raised, kernel_subdirs, outstanding,
                   failed_subdirs, subdir_hits, rerank_input, rerank_calls, final_files>>
    /\ KernelFrame

\* One iteration of the loop up to the oracle call of the partition's files stage:
\* an empty partition is skipped, a mock files stage returns at once.
PartitionBegin ==
    /\ kpc = "loop"
    /\ ~loop_over
    /\ LET subdir_structure == _filter_structure_by_subdir(structure, CurrentSubdir)
       IN  IF subdir_structure = <<>>
           THEN /\ kidx' = kidx + 1
                /\ UNCHANGED <<kpc, outstanding, oracle_calls, all_trajs, subdir_hits>>
           ELSE IF mock
           THEN /\ kidx' = kidx + 1
                /\ all_trajs' = Append(all_trajs,
                                       [subdir |-> CurrentSubdir, found_files |-> <<>>])
                /\ subdir_hits' = Append(subdir_hits, [idx |-> kidx, files |-> <<>>])
                /\ UNCHANGED <<kpc, outstanding, oracle_calls>>
           ELSE /\ kpc' = "partition_call"
                /\ outstanding' = outstanding + 1
                /\ oracle_calls' = oracle_calls + 1
                /\ UNCHANGED <<kidx, all_trajs, subdir_hits>>
    /\ UNCHANGED <<op, top_n, mock, outcome, error, oracle_raised, kernel_subdirs,
                   failed_subdirs, all_results, rerank_input, rerank_calls, final_files>>
    /\ KernelFrame

\* The oracle call of the partition's files stage returns or raises; the rest of
\* the iteration runs.
PartitionEnd ==
    /\ kpc = "partition_call"
    /\ \E o \in KernelOracleResults :
           LET files == get_full_file_paths(
                            _filter_structure_by_subdir(structure, CurrentSubdir))
               found == localize_found_files(o.response, files)
           IN  /\ oracle_raised' = (IF o.raises THEN "partition" ELSE oracle_raised)
               /\ IF o.raises
                  THEN IF except_exception("OracleError")
                       THEN /\ failed_subdirs' = failed_subdirs \cup {kidx}
                            /\ kpc' = "loop"
                            /\ kidx' = kidx + 1
                            /\ UNCHANGED <<outcome, error, all_results, all_trajs, subdir_hits>>
                       ELSE \* not caught: localize_by_subdirs ends with the exception
                            /\ failed_subdirs' = failed_subdirs \cup {kidx}
                            /\ kpc' = "aborted"
                            /\ outcome' = "raised"
                            /\ error' = "OracleError"
                            /\ UNCHANGED <<kidx, all_results, all_trajs, subdir_hits>>
                  ELSE /\ all_results' = all_results \o tagged(found, CurrentSubdir)
                       /\ all_trajs' = Append(all_trajs,
                                              [subdir |-> CurrentSubdir, found_files |-> found])
                       /\ subdir_hits' = Append(subdir_hits, [idx |-> kidx, files |-> found])
                       /\ kpc' = "loop"
                       /\ kidx' = kidx + 1
                       /\ UNCHANGED <<outcome, error, failed_subdirs>>
    /\ outstanding' = outstanding - 1
    /\ UNCHANGED <<op, top_n, mock, oracle_calls, kernel_subdirs, rerank_input,
                   rerank_calls, final_files>>
    /\ KernelFrame

\* The loop is over: _rerank_files(all_results, top_n, mock) up to its oracle call.
RerankBegin ==
    /\ kpc = "loop"
    /\ loop_over
    /\ _rerank_files_begin(all_results, top_n, mock)
    /\ UNCHANGED <<op, top_n, mock, error, oracle_raised, kernel_subdirs, kidx,
                   failed_subdirs, subdir_hits, all_results, all_trajs>>
    /\ KernelFrame

\* The oracle call of _rerank_files returns or raises; localize_by_subdirs ends.
RerankEnd ==
    /\ kpc = "rerank_call"
    /\ \E o \in KernelOracleResults :
           LET parsed == _parse_model_return_lines(o.response)
           IN  /\ oracle_raised' = (IF o.raises THEN "rerank" ELSE oracle_raised)
               /\ IF o.raises
                  THEN /\ outcome' = "raised"
                       /\ error' = "OracleError"
                       /\ UNCHANGED final_files
                  ELSE IF parsed.isNone
                  THEN \* None[:top_n] raises TypeError
                       /\ outcome' = "raised"
                       /\ error' = "TypeError"
                       /\ UNCHANGED final_files
                  ELSE /\ outcome' = "returned"
                       /\ error' = ""
                       /\ final_files' = first_n(parsed.lines, top_n)
    /\ kpc' = "done"
    /\ outstanding' = outstanding - 1
    /\ UNCHANGED <<op, top_n, mock, oracle_calls, kernel_subdirs, kidx, failed_subdirs,
                   subdir_hits, all_results, all_trajs, rerank_input, rerank_calls>>
    /\ KernelFrame

\* A KernelLLMFL object constructed over an index, with or without kernel_subdirs.
InitKernel ==
    /\ structure \in KernelStructures
    /\ CallDefaults
    /\ StageDefaults
    /\ IndexerDefaults
    /\ \E given \in KernelSubdirArgs :
           kernel_subdirs = (IF given # <<>> THEN given ELSE _get_kernel_subdirs(structure))
    /\ kpc = "idle"
    /\ kidx = 0
    /\ outstanding = 0
    /\ failed_subdirs = {}
    /\ subdir_hits = <<>>
    /\ all_results = <<>>
    /\ all_trajs = <<>>
    /\ rerank_input = <<>>
    /\ rerank_calls = 0
    /\ final_files = <<>>

NextKernel ==
    \/ RerankFiles
    \/ LocalizeBySubdirs
    \/ PartitionBegin
    \/ PartitionEnd
    \/ RerankBegin
    \/ RerankEnd

SpecKernel == InitKernel /\ [][NextKernel]_vars

-----------------------------------------------------------------------------
(* get_all_structure: the structural indexer. *)

S_r == <<"r">>
S_w_git == <<"w", ".", "g", "i", "t">>
N_git == <<".", "g", "i", "t">>
N_github == <<".", "g", "i", "t", "h", "u", "b">>
N_v4 == <<"v", "4">>
N_m_c == <<"m", ".", "c">>
N_cfg == <<"c", "f", "g">>
N_ci_yml == <<"c", "i", ".", "y", "m", "l">>
N_x_c == <<"x", ".", "c">>
N_t_h == <<"t", ".", "h">>
Dot == <<".">>
DotC == <<".", "c">>
DotH == <<".", "h">>

\* os.path.join(a, b)
path_join(a, b) == a \o Slash \o b

\* os.walk over a checkout with a .git folder, a .github folder, a folder net with
\* a nested folder, and files at the top: README and m.c.
RepoTree(dp) ==
    <<[root |-> dp, files |-> <<P_README, N_m_c>>],
      [root |-> path_join(dp, N_git), files |-> <<N_cfg>>],
      [root |-> path_join(dp, N_github), files |-> <<N_ci_yml>>],
      [root |-> path_join(dp, D_net), files |-> <<N_x_c>>],
      [root |-> path_join(path_join(dp, D_net), N_v4), files |-> <<N_t_h>>]>>

\* os.walk over an empty directory.
EmptyTree(dp) == <<[root |-> dp, files |-> <<>>]>>

Trees(dp) == {EmptyTree(dp), RepoTree(dp)}

\* The directories indexed: one named r, and a checkout directory named w.git.
DirectoryPaths == {S_r, S_w_git}

TargetSubdirArgs == {<<>>, <<D_net>>}

\* The text and the declarations clang finds in a source file of the tree.
SourceLines == <<"l1", "l2", "l3">>
SourceStructs == <<"S">>
SourceFunctions == <<"f">>

\* How the extraction of one file can go when the clang bindings are there: all of
\* it works, open/read raises, Index.create or index.parse raises, or the walk over
\* the cursor raises after the struct was collected.
ExtractionOutcomes == {"parsed", "read_error", "parser_error", "walk_error"}

FailedExtractions == {"read_error", "parser_error", "walk_error"}

\* sub in s, for strings
contains(s, sub) ==
    \E i \in 1..(Len(s) - Len(sub) + 1) : SubSeq(s, i, i + Len(sub) - 1) = sub

\* os.path.relpath(root, directory_path), for a root os.walk(directory_path) yields
relpath(root, start) ==
    IF root = start THEN Dot ELSE SubSeq(root, Len(start) + 2, Len(root))

\* relative_root.split(os.sep), nothing for "."
parts_of(relative_root) ==
    IF relative_root = Dot THEN <<>> ELSE split(relative_root, "/")

\* {}: an empty dict, as setdefault creates it and as a file that is no .c/.h gets it
EmptyDict == [classes |-> <<>>, functions |-> <<>>, text |-> <<>>, keys |-> 0]

\* {"classes": ..., "functions": ..., "text": ...}
FileRecord(structs, functions, file_lines) ==
    [classes |-> structs, functions |-> functions, text |-> file_lines, keys |-> 3]

HasNode(idx, path) == \E k \in 1..Len(idx) : idx[k].path = path

\* curr_struct.setdefault(part, {}) at the end of a key path
setdefault(idx, path) ==
    IF HasNode(idx, path) THEN idx ELSE Append(idx, [path |-> path, value |-> EmptyDict])

\* for part in relative_root.split(os.sep): curr_struct = curr_struct.setdefault(part, {})
RECURSIVE setdefault_parts(_, _, _)
setdefault_parts(idx, parts, k) ==
    IF k > Len(parts) THEN idx
    ELSE setdefault_parts(setdefault(idx, SubSeq(parts, 1, k)), parts, k + 1)

\* curr_struct[file_name] = value
setitem(idx, path, value) ==
    IF HasNode(idx, path)
    THEN [k \in 1..Len(idx) |->
             IF idx[k].path = path THEN [path |-> path, value |-> value] ELSE idx[k]]
    ELSE Append(idx, [path |-> path, value |-> value])

\* parse_c_file(file_path): what it returns when the extraction goes as `how` says
parse_c_file(how) ==
    IF how = "no_clang" \/ how = "read_error"
    THEN [raises |-> FALSE, structs |-> <<>>, functions |-> <<>>, file_lines |-> <<>>]
    ELSE IF how = "parser_error"
    THEN [raises |-> FALSE, structs |-> <<>>, functions |-> <<>>,
          file_lines |-> SourceLines]
    ELSE IF how = "walk_error"
    THEN [raises |-> FALSE, structs |-> SourceStructs, functions |-> <<>>,
          file_lines |-> SourceLines]
    ELSE [raises |-> FALSE, structs |-> SourceStructs, functions |-> SourceFunctions,
          file_lines |-> SourceLines]

\* file_name.endswith((".c", ".h"))
is_c_or_h(file_name) == endswith(file_name, DotC) \/ endswith(file_name, DotH)

\* if '.git' in root: continue
skips_root(root) == contains(root, N_git)

\* The target_subdirs test of create_structure_for_subdirs.
not_target(relative_root, targets) ==
    /\ targets # <<>>
    /\ relative_root # Dot
    /\ ~\E i \in 1..Len(targets) :
           \/ relative_root = targets[i]
           \/ startswith(relative_root, targets[i] \o Slash)

IndexerFrame == UNCHANGED <<structure, top_n, mock, raw_output, oracle_calls,
                            oracle_raised, filesVars,
                            stageVars, kpc, kidx, outstanding, failed_subdirs,
                            subdir_hits, all_results, all_trajs, rerank_input,
                            rerank_calls>>

\* The indexer is called: the walk begins with an empty structure.
BeginWalk(fn, targets) ==
    /\ ipc = "idle"
    /\ op = "none"
    /\ op' = fn
    /\ target_subdirs' = targets
    /\ ipc' = "walking"
    /\ walk_pos' = 1
    /\ file_pos' = 0
    /\ index_structure' = <<>>
    /\ extraction' = <<>>
    /\ outcome' = "running"
    /\ UNCHANGED <<CLANG_AVAILABLE, directory_path, tree, error, kernel_subdirs,
                   final_files>>
    /\ IndexerFrame

\* create_structure(directory_path)
CreateStructure == BeginWalk("create_structure", <<>>)

\* create_structure_for_subdirs(directory_path, target_subdirs)
CreateStructureForSubdirs ==
    \E targets \in TargetSubdirArgs : BeginWalk("create_structure_for_subdirs", targets)

\* The body of the os.walk loop up to the loop over the files of the directory.
EnterDirectory ==
    /\ ipc = "walking"
    /\ walk_pos <= Len(tree)
    /\ file_pos = 0
    /\ LET root == tree[walk_pos].root
           relative_root == relpath(root, directory_path)
       IN  IF \/ skips_root(root)
              \/ /\ op = "create_structure_for_subdirs"
                 /\ not_target(relative_root, target_subdirs)
           THEN /\ walk_pos' = walk_pos + 1
                /\ UNCHANGED <<file_pos, index_structure>>
           ELSE /\ index_structure' =
                       setdefault_parts(index_structure, parts_of(relative_root), 1)
                /\ IF tree[walk_pos].files = <<>>
                   THEN walk_pos' = walk_pos + 1 /\ UNCHANGED file_pos
                   ELSE file_pos' = 1 /\ UNCHANGED walk_pos
    /\ UNCHANGED <<CLANG_AVAILABLE, directory_path, target_subdirs, tree, ipc,
                   extraction, op, outcome, error, kernel_subdirs, final_files>>
    /\ IndexerFrame

\* One round of the loop over the files of the directory.
IndexFile ==
    /\ ipc = "walking"
    /\ walk_pos <= Len(tree)
    /\ file_pos >= 1
    /\ LET file_name == tree[walk_pos].files[file_pos]
           parts == parts_of(relpath(tree[walk_pos].root, directory_path))
           path == parts \o <<file_name>>
       IN  IF is_c_or_h(file_name)
           THEN \E how \in (IF CLANG_AVAILABLE THEN ExtractionOutcomes ELSE {"no_clang"}) :
                    LET r == parse_c_file(how)
                    IN  /\ index_structure' =
                               setitem(index_structure, path,
                                       IF r.raises
                                       THEN FileRecord(<<>>, <<>>, <<>>)
                                       ELSE FileRecord(r.structs, r.functions,
                                                       r.file_lines))
                        /\ extraction' = Append(extraction, [path |-> path, how |-> how])
           ELSE /\ index_structure' = setitem(index_structure, path, EmptyDict)
                /\ UNCHANGED extraction
    /\ IF file_pos = Len(tree[walk_pos].files)
       THEN walk_pos' = walk_pos + 1 /\ file_pos' = 0
       ELSE file_pos' = file_pos + 1 /\ UNCHANGED walk_pos
    /\ UNCHANGED <<CLANG_AVAILABLE, directory_path, target_subdirs, tree, ipc, op,
                   outcome, error, kernel_subdirs, final_files>>
    /\ IndexerFrame

\* The walk is over: return structure.
ReturnStructure ==
    /\ ipc = "walking"
    /\ walk_pos > Len(tree)
    /\ ipc' = "done"
    /\ outcome' = "returned"
    /\ UNCHANGED <<CLANG_AVAILABLE, directory_path, target_subdirs, tree, walk_pos,
                   file_pos, index_structure, extraction, op, error, kernel_subdirs,
                   final_files>>
    /\ IndexerFrame

\* for item in structure, over a dict: its keys, which are strings
RECURSIVE dict_keys(_)
dict_keys(idx) ==
    IF idx = <<>> THEN <<>>
    ELSE (IF Len(Head(idx).path) = 1 THEN Head(idx).path ELSE <<>>)
         \o dict_keys(Tail(idx))

\* item['type'] and item['name'] on an item that is a str raise TypeError (string
\* indices must be integers): the loops of _get_kernel_subdirs and of
\* _filter_structure_by_subdir end there, at the first key of the dict.
subscript_raises(keys) == keys # <<>>

\* KernelLLMFL(structure, kernel_subdirs) over the index the indexer has built.
KernelInitOnIndex ==
    /\ ipc = "done"
    /\ \E given \in TargetSubdirArgs :
           IF given # <<>>
           THEN /\ kernel_subdirs' = given
                /\ outcome' = "returned"
                /\ error' = ""
           ELSE IF subscript_raises(dict_keys(index_structure))
           THEN /\ kernel_subdirs' = <<>>
                /\ outcome' = "raised"
                /\ error' = "TypeError"
           ELSE /\ kernel_subdirs' = _get_kernel_subdirs(<<>>)
                /\ outcome' = "returned"
                /\ error' = ""
    /\ ipc' = "constructed"
    /\ op' = "KernelLLMFL.__init__"
    /\ UNCHANGED <<CLANG_AVAILABLE, directory_path, target_subdirs, tree, walk_pos,
                   file_pos, index_structure, extraction, final_files>>
    /\ IndexerFrame

\* localize_by_subdirs on that object: the first _filter_structure_by_subdir raises
\* over a dict with keys; over an empty dict every partition is empty and the
\* re-rank step returns [] with no oracle call.
LocalizeBySubdirsOnIndex ==
    /\ ipc = "constructed"
    /\ outcome = "returned"
    /\ kernel_subdirs # <<>>
    /\ IF subscript_raises(dict_keys(index_structure))
       THEN /\ outcome' = "raised"
            /\ error' = "TypeError"
            /\ UNCHANGED final_files
       ELSE /\ outcome' = "returned"
            /\ error' = ""
            /\ final_files' = paths_of(first_n(_filter_structure_by_subdir(<<>>,
                                                   kernel_subdirs[1]), top_n))
    /\ ipc' = "partitioned"
    /\ op' = "localize_by_subdirs"
    /\ UNCHANGED <<CLANG_AVAILABLE, directory_path, target_subdirs, tree, walk_pos,
                   file_pos, index_structure, extraction, kernel_subdirs>>
    /\ IndexerFrame

\* A directory to index, with or without the clang bindings.
InitIndexer ==
    /\ structure = <<>>
    /\ CallDefaults
    /\ StageDefaults
    /\ KernelDefaults
    /\ CLANG_AVAILABLE \in BOOLEAN
    /\ directory_path \in DirectoryPaths
    /\ tree \in Trees(directory_path)
    /\ target_subdirs = <<>>
    /\ ipc = "idle"
    /\ walk_pos = 0
    /\ file_pos = 0
    /\ index_structure = <<>>
    /\ extraction = <<>>

NextIndexer ==
    \/ CreateStructure
    \/ CreateStructureForSubdirs
    \/ EnterDirectory
    \/ IndexFile
    \/ ReturnStructure
    \/ KernelInitOnIndex
    \/ LocalizeBySubdirsOnIndex

SpecIndexer == InitIndexer /\ [][NextIndexer]_vars

-----------------------------------------------------------------------------
(* Claims about the symbol and line stages (SpecStages). *)

ListStages ==
    {"localize_function_from_compressed_files", "localize_function_from_raw_text",
     "localize_line_from_raw_text"}

LineStages == {"localize_line_from_coarse_function_locs", "localize_line_from_raw_text"}

BudgetStages == ListStages \cup LineStages

\* The token count of the message finally built.
FinalTokens == tok[Len(contents)]

\* The messages the loop can build: one per number of chunks kept.
Buildable == DOMAIN tok

\* C1: in the stages that shrink a list of per-file chunks, the chunks of the
\* message finally used are a prefix of the initial list, every longer prefix was
\* too long, and in the scenario (three chunks, 130 with all, 90 with two) exactly
\* the first two chunks are left.
C1_DropFromTail ==
    op \in ListStages =>
        /\ Len(contents) <= Len(file_names)
        /\ contents = SubSeq(file_names, 1, Len(contents))
        /\ \A k \in (Len(contents) + 1)..Len(file_names) : tok[k] >= MAX_CONTEXT_LENGTH
        /\ (Len(file_names) = 3 /\ tok[3] = 166400 /\ tok[2] = 115200)
               => contents = <<1, 2>>

\* The scenario of C1 has run in a stage that went on to the oracle.
C1_Witness ==
    /\ op = "localize_function_from_compressed_files"
    /\ Len(file_names) = 3
    /\ tok[3] = 166400
    /\ tok[2] = 115200
    /\ contents = <<1, 2>>
    /\ oracle_calls = 1

\* C2 as stated: the stage fails with the context-too-large error exactly when the
\* total measured with at most one candidate left exceeds the budget.
C2_Original ==
    (op \in BudgetStages /\ Len(file_names) >= 1) =>
        (error = "ValueError" <=> (Len(contents) <= 1 /\ FinalTokens > MAX_CONTEXT_LENGTH))

\* C2, amended: the stage fails with the context-too-large error exactly when the
\* total measured for the message left by the loop is greater than or equal to the
\* budget, which happens only with at most one candidate left; otherwise it proceeds
\* to the mock return or to the oracle call.
C2_FailsIffAtLeastBudget ==
    op \in BudgetStages =>
        /\ error = "ValueError" <=> FinalTokens >= MAX_CONTEXT_LENGTH
        /\ error = "ValueError" => (outcome = "raised" /\ Len(contents) <= 1)
        /\ error # "ValueError" => (outcome = "returned" \/ oracle_calls = 1)

\* A single candidate measuring exactly the budget made the stage fail.
C2_Witness ==
    /\ op = "localize_line_from_coarse_function_locs"
    /\ Len(file_names) = 2
    /\ Len(contents) = 1
    /\ FinalTokens = MAX_CONTEXT_LENGTH
    /\ error = "ValueError"

\* C3: whenever the oracle is called by a symbol or line stage, the prompt passed
\* to it is the message finally built and measures no more than the budget; and if
\* no message within the budget can be built, the error is raised with no oracle
\* call made.
C3_OraclePromptWithinBudget ==
    op \in BudgetStages =>
        /\ oracle_calls > 0 =>
               (prompt_tokens = FinalTokens /\ prompt_tokens <= MAX_CONTEXT_LENGTH)
        /\ (\A k \in Buildable : tok[k] > MAX_CONTEXT_LENGTH) =>
               (error = "ValueError" /\ oracle_calls = 0)
        /\ error = "ValueError" => oracle_calls = 0

\* The oracle was called with a message that fits only after files were dropped.
C3_Witness ==
    /\ op = "localize_line_from_coarse_function_locs"
    /\ Len(file_names) = 3
    /\ tok[3] > MAX_CONTEXT_LENGTH
    /\ tok[2] > MAX_CONTEXT_LENGTH
    /\ Len(contents) = 1
    /\ oracle_calls = 1
    /\ prompt_tokens = MAX_CONTEXT_LENGTH - 1

LineStageAnswered == op \in LineStages /\ ~mock /\ outcome = "returned"

\* C4: a line stage whose oracle returned num_samples responses returns the one
\* parsed result itself when num_samples is 1, and a list of exactly num_samples
\* parsed results, in sample order, when it is more.
C4_FlatOrListOfSamples ==
    (LineStageAnswered /\ Len(raw_trajs) = num_samples) =>
        /\ locs.isList <=> num_samples > 1
        /\ Len(locs.items) = num_samples
        /\ \A i \in 1..num_samples :
               locs.items[i] = extract_locs_for_files(raw_trajs[i].response, file_names)

\* One sample gave a flat result.
C4_Witness ==
    /\ LineStageAnswered
    /\ num_samples = 1
    /\ ~locs.isList
    /\ Len(file_names) = 2
    /\ locs.items = <<extract_locs_for_files(ResponseB, file_names)>>

\* Several samples, the two responses in both orders, gave a list.
C4_WitnessList ==
    /\ LineStageAnswered
    /\ num_samples = 3
    /\ locs.isList
    /\ Len(locs.items) = 3
    /\ raw_trajs[1].response = ResponseB
    /\ raw_trajs[2].response = ResponseA

\* The sum of f over the indexes 1..n.
RECURSIVE SumTo(_, _)
SumTo(f, n) == IF n = 0 THEN 0 ELSE f[n] + SumTo(f, n - 1)

\* C5: the merged trajectory of a line stage has as prompt_tokens the sum of the
\* samples' prompt_tokens, as completion_tokens the sum of their
\* completion_tokens, and as responses every sample's raw response in sample order.
C5_MergedUsageIsSum ==
    LineStageAnswered =>
        /\ traj.usage.prompt_tokens =
               SumTo([i \in 1..Len(raw_trajs) |-> raw_trajs[i].usage.prompt_tokens],
                     Len(raw_trajs))
        /\ traj.usage.completion_tokens =
               SumTo([i \in 1..Len(raw_trajs) |-> raw_trajs[i].usage.completion_tokens],
                     Len(raw_trajs))
        /\ Len(traj.response) = Len(raw_trajs)
        /\ \A i \in 1..Len(raw_trajs) : traj.response[i] = raw_trajs[i].response

\* Three samples with different usage were merged.
C5_Witness ==
    /\ LineStageAnswered
    /\ num_samples = 3
    /\ raw_trajs[1].response = ResponseB
    /\ raw_trajs[2].response = ResponseA
    /\ raw_trajs[3].response = ResponseB
    /\ traj.usage.prompt_tokens = 29
    /\ traj.usage.completion_tokens = 8

\* The list of chunks a stage starts from.
InitialChunks ==
    IF op = "localize_line_from_coarse_function_locs" THEN coarse_in ELSE file_names

\* C16: a list that fits the budget as it is, is used unchanged; the shrink loop
\* run again on the list a stage ended with, with the same token counter, drops
\* nothing and gives that list.
C16_FitIsIdempotent ==
    op \in BudgetStages =>
        /\ ~message_too_long(tok[Len(InitialChunks)]) => contents = InitialChunks
        /\ shrink(contents, tok) = contents
        /\ shrink(InitialChunks, tok) = contents

\* Three candidates of which the loop dropped one: run again on the two left, the
\* loop drops nothing.
C16_Witness ==
    /\ op = "localize_function_from_raw_text"
    /\ Len(file_names) = 3
    /\ contents = <<1, 2>>
    /\ message_too_long(tok[3])
    /\ ~message_too_long(tok[2])
    /\ outcome = "returned"

\* Three candidates that fit as they are.
C16_WitnessFits ==
    /\ op = "localize_function_from_compressed_files"
    /\ contents = <<1, 2, 3>>
    /\ tok[3] = MAX_CONTEXT_LENGTH - 1
    /\ outcome = "returned"

\* The coarse lines stage has run.
CoarseStageRan == op = "localize_line_from_coarse_function_locs"

\* C18: after a call of the coarse lines stage, returned or raised, the caller's
\* coarse_locs holds the files it held before the call.
C18_CoarseLocsUnchanged ==
    CoarseStageRan => coarse_locs = coarse_in

\* C19: the files the coarse lines stage is left with after its overflow steps are
\* the first ones of file_names, whatever the order of the keys of coarse_locs:
\* each step has dropped the last remaining file of file_names; and the loop has
\* stopped at the first message that fits, or at one file.
C19_DropsLastOfFileNames ==
    CoarseStageRan =>
        /\ {coarse_locs[i] : i \in 1..Len(coarse_locs)}
               = {file_names[i] : i \in 1..Len(coarse_locs)}
        /\ \A k \in (Len(coarse_locs) + 1)..Len(coarse_in) : message_too_long(tok[k])
        /\ Len(coarse_locs) > 1 => ~message_too_long(tok[Len(coarse_locs)])

-----------------------------------------------------------------------------
(* Claims about the files stage and the irrelevant-folders stage (SpecFiles). *)

IndexedFiles == get_full_file_paths(structure)

LocalizeAnswered == op = "localize" /\ ~mock /\ outcome = "returned"

IrrelevantAnswered == op = "localize_irrelevant" /\ ~mock /\ outcome = "returned"

\* s holds no element twice.
NoDuplicates(s) == \A i, j \in 1..Len(s) : s[i] = s[j] => i = j

\* s is t with some elements left out, the others in t's order.
KeepsOrderOf(s, t) ==
    LET in_s(x) == InSeq(x, s) IN SelectSeq(t, in_s) = s

\* The first line of the list that resolves to path p (0 when none does).
FirstMention(p, lines, files) ==
    IF \E k \in 1..Len(lines) : ResolvePath(lines[k], files) = <<p>>
    THEN CHOOSE k \in 1..Len(lines) :
             /\ ResolvePath(lines[k], files) = <<p>>
             /\ \A j \in 1..(k - 1) : ResolvePath(lines[j], files) # <<p>>
    ELSE 0

\* C6: the files stage returns the resolved paths in the order of their first
\* mention in the oracle's raw response, each once, with no entry for the fence
\* lines or the white space around the text; for the index a.c, sub/b.c, sub/c.h
\* and the fenced response sub/b.c, a.c the result is exactly [sub/b.c, a.c].
C6_OrderOfFirstMention ==
    LocalizeAnswered =>
        /\ raw_output = Render(said.lines, said.wrap)
        /\ LET l == said.lines IN
                   /\ NoDuplicates(found_files)
                   /\ \A i \in 1..Len(found_files) :
                          FirstMention(found_files[i], l, IndexedFiles) > 0
                   /\ \A k \in 1..Len(l) :
                          ResolvePath(l[k], IndexedFiles) # <<>> =>
                              InSeq(ResolvePath(l[k], IndexedFiles)[1], found_files)
                   /\ \A i, j \in 1..Len(found_files) :
                          i < j => FirstMention(found_files[i], l, IndexedFiles)
                                       < FirstMention(found_files[j], l, IndexedFiles)
        /\ (structure = ScenarioStructure /\ raw_output = ScenarioResponse)
               => found_files = <<P_sub_b_c, P_a_c>>

\* The scenario of C6 has run: the oracle's order differs from the index's.
C6_Witness ==
    /\ LocalizeAnswered
    /\ structure = ScenarioStructure
    /\ raw_output = ScenarioResponse
    /\ found_files = <<P_sub_b_c, P_a_c>>

\* C7: the files stage returns at most top_n file paths.
C7_AtMostTopN == LocalizeAnswered => Len(found_files) <= top_n

\* The lines of the response that name a folder of the index, with or without a
\* trailing slash.
IsFolderString(x) ==
    \E i \in 1..Len(structure) :
        /\ structure[i].type = "directory"
        /\ x = structure[i].name \/ x = structure[i].name \o Slash

\* kept and filtered split the indexed files, each in the index's order.
PartitionsIndex ==
    /\ \A i \in 1..Len(IndexedFiles) :
           InSeq(IndexedFiles[i], found_files) # InSeq(IndexedFiles[i], filtered_files)
    /\ KeepsOrderOf(found_files, IndexedFiles)
    /\ KeepsOrderOf(filtered_files, IndexedFiles)

C9_Original ==
    IrrelevantAnswered =>
        LET l == said.lines IN
                \A k \in 1..Len(l), i \in 1..Len(IndexedFiles) :
                    (IsFolderString(l[k]) /\ startswith(IndexedFiles[i], l[k]))
                        => ~InSeq(IndexedFiles[i], found_files)

\* C9, amended: a declared string that ends with "/" keeps every indexed file whose
\* path starts with it, nested ones included, out of the kept list and puts it in
\* the filtered list.
C9_SlashFolderExcludes ==
    IrrelevantAnswered =>
        LET l == said.lines IN
                \A k \in 1..Len(l), i \in 1..Len(IndexedFiles) :
                    (endswith(l[k], Slash) /\ startswith(IndexedFiles[i], l[k]))
                        => /\ ~InSeq(IndexedFiles[i], found_files)
                           /\ InSeq(IndexedFiles[i], filtered_files)

\* "sub/" was declared: sub/b.c and the nested sub/d/e.c are out, subs/f.c stays.
C9_Witness ==
    /\ IrrelevantAnswered
    /\ structure = NestedStructure
    /\ raw_output = Render(<<L_sub_slash>>, "plain")
    /\ filtered_files = <<P_sub_b_c, P_sub_d_e_c>>
    /\ found_files = <<P_a_c, P_subs_f_c, P_t_py>>

-----------------------------------------------------------------------------
(* Claims about the partitioned localization (SpecKernel). *)

\* The hits of one partition's files stage, each with the partition's name.
HitsOf(h) == [i \in 1..Len(h.files) |-> <<h.files[i], kernel_subdirs[h.idx]>>]

RECURSIVE CandidatesOf(_)
CandidatesOf(hits) ==
    IF hits = <<>> THEN <<>> ELSE HitsOf(Head(hits)) \o CandidatesOf(Tail(hits))

\* Partition i has entries in the index.
NonEmptyPartition(i) ==
    \E k \in 1..Len(structure) :
        \/ startswith(structure[k].name, kernel_subdirs[i] \o Slash)
        \/ structure[k].name = kernel_subdirs[i]

\* C10: once the files stage of a partition has raised, the run is not aborted:
\* the loop goes on, and the candidate list passed to the re-rank step holds the
\* hits of every other partition, each with its partition, in partition order.
C10_FailedPartitionSkipped ==
    failed_subdirs # {} =>
        /\ kpc # "aborted"
        /\ kpc \in {"loop", "partition_call"} => outcome = "running"
        /\ kpc \in {"rerank_call", "done"} =>
               /\ rerank_input = CandidatesOf(subdir_hits)
               /\ \A i \in 1..Len(kernel_subdirs) :
                      (i \notin failed_subdirs /\ NonEmptyPartition(i))
                          => \E k \in 1..Len(subdir_hits) : subdir_hits[k].idx = i
               /\ \A k, l \in 1..Len(subdir_hits) :
                      k < l => subdir_hits[k].idx < subdir_hits[l].idx

\* The second of three partitions raised; the hits of the first and the third are
\* what the re-rank step is given.
C10_Witness ==
    /\ kernel_subdirs = <<D_net, D_mm, D_fs>>
    /\ failed_subdirs = {2}
    /\ kpc = "rerank_call"
    /\ rerank_input = <<<<P_net_x_c, D_net>>, <<P_fs_w_h, D_fs>>, <<P_fs_z_c, D_fs>>>>

\* The re-rank step has bypassed the oracle or its oracle call has ended.
RerankOver == kpc = "done" /\ op \in {"_rerank_files", "localize_by_subdirs"}

\* C11: the re-rank step calls the oracle only for a non-empty hit list without
\* mock, and then exactly once; for an empty hit list or with mock it calls no
\* oracle and returns the paths of the first top_n hits in collection order.
C11_RerankBypass ==
    /\ kpc = "rerank_call" => (rerank_input # <<>> /\ ~mock /\ rerank_calls = 1)
    /\ RerankOver =>
           IF rerank_input = <<>> \/ mock
           THEN /\ rerank_calls = 0
                /\ outcome = "returned"
                /\ Len(final_files) =
                       (IF Len(rerank_input) < top_n THEN Len(rerank_input) ELSE top_n)
                /\ \A i \in 1..Len(final_files) : final_files[i] = rerank_input[i][1]
           ELSE rerank_calls = 1

\* With mock and three collected hits the first top_n = 2 come back, no oracle call.
C11_Witness ==
    /\ RerankOver
    /\ mock
    /\ top_n = 2
    /\ Len(rerank_input) = 3
    /\ rerank_calls = 0
    /\ final_files = <<P_net_x_c, P_fs_z_c>>

\* The loop has dealt with partition i: its files stage returned or raised, or the
\* partition has no entry in the index.
Processed(i) ==
    \/ i \in failed_subdirs
    \/ \E k \in 1..Len(subdir_hits) : subdir_hits[k].idx = i
    \/ ~NonEmptyPartition(i)

\* An oracle call of partition i was made and has ended.
CallEnded(i) ==
    i \in failed_subdirs \/ \E k \in 1..Len(subdir_hits) : subdir_hits[k].idx = i

\* C15: at most one oracle call is outstanding; while the call of a partition is
\* outstanding, the calls that have ended are those of earlier partitions of
\* kernel_subdirs only; the re-rank call is made when every partition has been
\* processed.
C15_OneOracleCallAtATime ==
    /\ outstanding \in {0, 1}
    /\ outstanding = 1 <=> kpc \in {"partition_call", "rerank_call"}
    /\ kpc \in {"loop", "partition_call"} =>
           \A i \in 1..Len(kernel_subdirs) :
               /\ CallEnded(i) => i < kidx
               /\ i < kidx => Processed(i)
    /\ kpc = "partition_call" => kidx \in 1..Len(kernel_subdirs)
    /\ (kpc = "rerank_call" /\ op = "localize_by_subdirs") =>
           \A i \in 1..Len(kernel_subdirs) : Processed(i)

\* The re-rank call is outstanding after the calls of three partitions.
C15_Witness ==
    /\ op = "localize_by_subdirs"
    /\ kpc = "rerank_call"
    /\ outstanding = 1
    /\ Len(kernel_subdirs) = 3
    /\ oracle_calls = 4

\* C22: every element of the list the partitioned localization returns is the path
\* of a hit collected from the partitions, and no path is in it twice, whatever the
\* oracle answered to the re-rank call.
C22_RankedAreCollectedHits ==
    (RerankOver /\ outcome = "returned") =>
        /\ \A i \in 1..Len(final_files) : InSeq(final_files[i], paths_of(rerank_input))
        /\ NoDuplicates(final_files)

-----------------------------------------------------------------------------
(* Claims about the indexer (SpecIndexer). *)

\* The nodes of the built index at a key path.
NodesAt(path) == {k \in 1..Len(index_structure) : index_structure[k].path = path}

\* The directory the walk yielded as number d is the folder .git or is below it.
InsideGit(d) == InSeq(N_git, parts_of(relpath(tree[d].root, directory_path)))

\* C12: once the index is built without target_subdirs, every file under the
\* directory that is not inside a .git folder has exactly one record at the key
\* path of its relative path, an empty one when it is no .c/.h file; a folder
\* whose path only contains the letters .git, like .github, is indexed too.
C12_IndexComplete ==
    (ipc = "done" /\ target_subdirs = <<>>) =>
        \A d \in 1..Len(tree) :
            ~InsideGit(d) =>
                \A f \in 1..Len(tree[d].files) :
                    LET path == parts_of(relpath(tree[d].root, directory_path))
                                    \o <<tree[d].files[f]>>
                    IN  /\ Cardinality(NodesAt(path)) = 1
                        /\ ~is_c_or_h(tree[d].files[f]) =>
                               \A k \in NodesAt(path) :
                                   index_structure[k].value = EmptyDict

\* C13: a recognized source file whose extraction failed (the read or the parser
\* raised) is in the index with empty classes, functions and text, and the build
\* has gone on.
C13_FailedExtractionEmptyRecord ==
    \A e \in 1..Len(extraction) :
        extraction[e].how \in FailedExtractions =>
            /\ outcome # "raised"
            /\ \E k \in NodesAt(extraction[e].path) :
                   index_structure[k].value = FileRecord(<<>>, <<>>, <<>>)

\* The top-level folders the walk entered, in the order of the walk.
RECURSIVE TopLevelFolders(_)
TopLevelFolders(d) ==
    IF d > Len(tree) THEN <<>>
    ELSE LET parts == parts_of(relpath(tree[d].root, directory_path))
         IN  (IF Len(parts) = 1 /\ HasNode(index_structure, parts)
              THEN <<parts[1]>> ELSE <<>>) \o TopLevelFolders(d + 1)

\* C20: over an index the indexer has built, the partitioner does not raise, and
\* the partitions it reads off the index are its top-level folders.
C20_PartitionerOnBuiltIndex ==
    ipc \in {"constructed", "partitioned"} =>
        /\ outcome = "returned"
        /\ (op = "KernelLLMFL.__init__" /\ kernel_subdirs \notin TargetSubdirArgs)
               => kernel_subdirs = TopLevelFolders(1)

-----------------------------------------------------------------------------
(* Claims about the whole pipeline (SpecPipeline). *)

\* One KernelLLMFL object over the kernel index: the stage methods it inherits from
\* LLMFL, LLMFL.localize as its partitions run it, and the partitioned localization.
InitPipeline ==
    /\ InitKernel
    /\ structure = KernelStructure
    /\ kernel_subdirs = _get_kernel_subdirs(structure)

NextPipeline == NextFiles \/ NextStages \/ NextKernel

SpecPipeline == InitPipeline /\ [][NextPipeline]_vars

\* C14: an exception of the oracle ends a top-level stage call and the re-rank
\* call with that exception; raised in the files stage of a partition it is
\* caught, and the partitioned localization goes on.
C14_OracleFailureCaughtAtPartitionOnly ==
    /\ oracle_raised = "stage" => (outcome = "raised" /\ error = "OracleError")
    /\ oracle_raised = "rerank" =>
           (kpc = "done" /\ outcome = "raised" /\ error = "OracleError")
    /\ oracle_raised = "partition" =>
           /\ kpc \in {"loop", "partition_call", "rerank_call", "done"}
           /\ error # "OracleError"
           /\ failed_subdirs # {}

\* The oracle raised for one partition, which was skipped, and raised again in the
\* re-rank call, which ended the run.
C14_Witness ==
    /\ failed_subdirs # {}
    /\ oracle_raised = "rerank"
    /\ outcome = "raised"
    /\ error = "OracleError"

\* C17: an answer of the oracle to the irrelevant-folders stage or to the re-rank
\* call never makes the stage raise; an answer with no usable line leaves every
\* file kept, respectively gives a ranked list that only holds lines of the answer.
C17_EmptyResponseNotFatal ==
    /\ (op = "localize_irrelevant" /\ oracle_calls = 1 /\ oracle_raised = "") =>
           /\ outcome = "returned"
           /\ raw_output = <<>> =>
                  (found_files = get_full_file_paths(structure) /\ filtered_files = <<>>)
    /\ (RerankOver /\ rerank_calls = 1 /\ oracle_raised # "rerank") =>
           outcome = "returned"

\* C21: with mock set no stage calls the oracle, and each of them (the two files
\* stages, the symbol and line stages whose prompt fits the budget, the partitioned
\* localization) returns, with an empty result and, in the symbol and line stages,
\* a trajectory that holds the prompt's token count.
C21_MockNeverCallsOracle ==
    mock =>
        /\ oracle_calls = 0
        /\ outstanding = 0
        /\ op \in {"localize", "localize_irrelevant"} =>
               (outcome = "returned" /\ found_files = <<>>)
        /\ (op \in BudgetStages /\ error # "ValueError") =>
               /\ outcome = "returned"
               /\ locs.items = <<>>
               /\ traj = MockTraj(FinalTokens)
        /\ (op = "localize_by_subdirs" /\ kpc = "done") =>
               (outcome = "returned" /\ final_files = <<>>)

====
